---- MODULE Spec2Model ----
(***************************************************************************)
(* A model of the executable cells of the RFSoC-Book notebooks:            *)
(*   - the clock-setup cell of the RFSoC introduction notebook             *)
(*     (src/unnamed/part_001),                                             *)
(*   - format_llr, the control-word construction cells, the DMA transfer   *)
(*     cells and the interrupt driven BER measurement of the SD-FEC        *)
(*     notebooks (notebook_H/04_fec_decoding.ipynb).                       *)
(* One behaviour of the model is the execution of one of these sections;   *)
(* `section` says which, and the variables of the other sections rest.     *)
(***************************************************************************)
EXTENDS Integers, Sequences, FiniteSets, TLC

VARIABLES
    section,        \* the notebook section this behaviour executes
    \* ---- clock-setup cell (part_001, lines 197-204)
    board,          \* xrfclk.board
    lmk_freq,       \* the cell's lmk_freq, in units of 0.01 MHz; 0 = unbound
    ref_clks_calls, \* the calls of xrfclk.set_ref_clks made so far: <<lmk, lmx>>
    clk_pc,         \* "check" | "set_ref_clks" | "done" | "raised"
    \* ---- format_llr (04_fec_decoding.ipynb, lines 120-143)
    llr_in,         \* the argument, in units of 1/LlrUnit
    llr_pc,         \* "call" | "returned"
    llr_locals,     \* the function's locals at return: llr, binary, binary_extended, ret
    \* ---- encoder control word cell (lines 1561-1565)
    block_id,       \* block_id
    code_id,        \* code_id = ldpc_params.index(code_name)
    ctrl_word,      \* ctrl_word, as a bit string
    enc_pc,         \* "cell" | "done"
    \* ---- decoder control word cell (lines 307-324)
    ctrl_params,    \* the ctrl_params dictionary
    dec_ctrl_word,  \* ctrl_word of the decoder cell, as a bit string
    ctrl_buffer,    \* ctrl_buffer[0], a uint32, as a bit string
    dec_pc,         \* "cell" | "done"
    \* ---- DMA transfer cells (decode: lines 488-502, encode: lines 1769-1783)
    dma_pc,         \* index of the cell's next transfer()/wait() statement
    chan,           \* state of each DMA channel: "idle" | "running" | "done"
    started,        \* the channels in the order their transfers were initiated
    core,           \* the SD-FEC core: what it has consumed and emitted
    filled,         \* the receive buffers the DMA has written
    \* ---- hardware accelerated BER measurement (lines 1081-1218)
    launch_pc,      \* position in the launch cell
    intr_flag,      \* the global intr_flag; -1 = unbound
    is_running,     \* Interrupt.is_running
    do_pc,          \* the thread running Interrupt._do
    co_pc,          \* the coroutine Interrupt._wait on the event loop
    main_pc,        \* the thread running main()
    codes_progress, \* codes_progress.value
    snr_progress,   \* snr_progress.value
    BER,            \* len(BER), the measurements of the current code
    BERs,           \* len(BERs), the codes whose measurements are recorded
    ber_state,      \* the BER Calculation core: "idle" | "measuring" | "done"
    irq_mode,       \* how ber_intr reaches wait(): "level" | "pulse"
    irq_pending,    \* pulse mode: an interrupt is latched and not yet taken
    handler_since_read, \* history: intr_handler has run since the last get_ber
    stale_read,     \* history: a get_ber was made with no handler run since the one before
    outstanding,    \* history: _wait coroutines scheduled and not yet finished
    cb_due,         \* history: returns of wait() minus calls of the callback
    \* ---- data buffer cells (decoder: lines 463-471, encoder: lines 1722-1730
    \*      and 1817-1822)
    dec_cell,       \* the decoder cell's n, k, K, tx_dec_buf, rx_dec_buf
    enc_cell,       \* the encoder cells' n, k, K, N, tx_enc_buf, rx_enc_buf, rx_bits
    buf_pc,         \* "alloc" | "serialise" | "done"
    \* ---- get_data_buffers (lines 775-820) and the state it works on
    ldpc,           \* dec_fec._code_params.ldpc: n and k of each code
    CORE_BYPASS,    \* the CORE_BYPASS register of enc_fec and of dec_fec
    enc_ctrl_buffer,\* enc_ctrl_buffer[0], a uint32, as a bit string
    dec_ctrl_buffer,\* dec_ctrl_buffer[0], a uint32, as a bit string
    allocs,         \* the number of data buffers allocated so far
    gdb_pc,         \* position in get_data_buffers
    gdb_locals,     \* the call's argument and its locals code_name, code_id
    gdb_calls       \* history: the calls completed, with the state each left

clockVars == <<board, lmk_freq, ref_clks_calls, clk_pc>>
llrVars   == <<llr_in, llr_pc, llr_locals>>
encVars   == <<block_id, code_id, ctrl_word, enc_pc>>
decVars   == <<ctrl_params, dec_ctrl_word, ctrl_buffer, dec_pc>>
dmaVars   == <<dma_pc, chan, started, core, filled>>
hwVars    == <<launch_pc, intr_flag, is_running, do_pc, co_pc, main_pc,
               codes_progress, snr_progress, BER, BERs, ber_state,
               irq_mode, irq_pending, handler_since_read, stale_read,
               outstanding, cb_due>>
bufVars   == <<dec_cell, enc_cell, buf_pc>>
gdbVars   == <<ldpc, CORE_BYPASS, enc_ctrl_buffer, dec_ctrl_buffer, allocs,
               gdb_pc, gdb_locals, gdb_calls>>
vars      == <<section, clockVars, llrVars, encVars, decVars, dmaVars, hwVars, bufVars, gdbVars>>

Sections == {"clock", "format_llr", "enc_ctrl_word", "dec_ctrl_word",
             "encode_transfer", "decode_transfer", "hw_ber",
             "dec_buffers", "enc_buffers", "get_data_buffers"}

(***************************************************************************)
(* Clock-setup cell.                                                       *)
(***************************************************************************)
\* Frequencies are written in units of 0.01 MHz.
Lmk12288 == 12288
Lmk24576 == 24576
Lmx40960 == 40960

\* The platforms the cell names, and some it does not.
SupportedBoards == {"ZCU111", "RFSoC2x2", "RFSoC4x2"}
Boards == SupportedBoards \cup {"ZCU208", "ZCU216", "Pynq-Z2", ""}

\* Table 1: the default frequency of the LMK device of each platform.
Table1LmkDefault(b) ==
    CASE b = "ZCU111"   -> 12288
      [] b = "RFSoC2x2" -> 12288
      [] b = "RFSoC4x2" -> 24576
      [] OTHER          -> 0

\* "We require the LMX device to be set to a frequency of 409.6MHz"
LmxRequired == 40960

ClockIdle == /\ board = ""
             /\ lmk_freq = 0
             /\ ref_clks_calls = <<>>
             /\ clk_pc = "check"

ClockInit == /\ board \in Boards
             /\ lmk_freq = 0
             /\ ref_clks_calls = <<>>
             /\ clk_pc = "check"

\* A cell that falls back to a default frequency instead of raising.
PlatformCheckNoRaise ==
    /\ section = "clock"
    /\ clk_pc = "check"
    /\ lmk_freq' = IF board \in {"RFSoC4x2"} THEN Lmk24576 ELSE Lmk12288
    /\ clk_pc' = "set_ref_clks"
    /\ UNCHANGED <<section, board, ref_clks_calls, llrVars, encVars, decVars, dmaVars,
                   hwVars, bufVars, gdbVars>>

\* if / elif / else: raise RuntimeError('Platform not supported.')
PlatformCheck ==
    /\ section = "clock"
    /\ clk_pc = "check"
    /\ IF board \in {"ZCU111", "RFSoC2x2"}
         THEN lmk_freq' = Lmk12288 /\ clk_pc' = "set_ref_clks"
         ELSE IF board \in {"RFSoC4x2"}
           THEN lmk_freq' = Lmk24576 /\ clk_pc' = "set_ref_clks"
           ELSE lmk_freq' = lmk_freq /\ clk_pc' = "raised"
    /\ UNCHANGED <<section, board, ref_clks_calls, llrVars, encVars, decVars, dmaVars,
                   hwVars, bufVars, gdbVars>>

\* The call with its two arguments exchanged.
SetRefClksSwapped ==
    /\ section = "clock"
    /\ clk_pc = "set_ref_clks"
    /\ ref_clks_calls' = Append(ref_clks_calls, <<Lmx40960, lmk_freq>>)
    /\ clk_pc' = "done"
    /\ UNCHANGED <<section, board, lmk_freq, llrVars, encVars, decVars, dmaVars,
                   hwVars, bufVars, gdbVars>>

\* xrfclk.set_ref_clks(lmk_freq, 409.6)
SetRefClks ==
    /\ section = "clock"
    /\ clk_pc = "set_ref_clks"
    /\ ref_clks_calls' = Append(ref_clks_calls, <<lmk_freq, Lmx40960>>)
    /\ clk_pc' = "done"
    /\ UNCHANGED <<section, board, lmk_freq, llrVars, encVars, decVars, dmaVars,
                   hwVars, bufVars, gdbVars>>

(***************************************************************************)
(* format_llr.  An LLR is a binary float; the model takes the inputs that  *)
(* are multiples of 1/LlrUnit, LlrUnit = 2^(FracBits+SubBits), so that     *)
(* values between two representable quarter steps, and the ties of the     *)
(* rounding, are among them.  All of them are exact in binary floating     *)
(* point, and so are their products with pow(2,2).                         *)
(***************************************************************************)
FracBits == 2       \* pow(2,2): two fractional bits
WordBits == 6       \* '{0:06b}', pow(2,6)
SatQuarters == 31   \* 7.75, the saturation bound, in quarters
SubBits == 2        \* binary digits of the inputs below the quarter
MaxLlrInt == 10     \* inputs range over -MaxLlrInt.0 .. MaxLlrInt.0

Pow2(n) == 2 ^ n
LlrUnit == Pow2(FracBits + SubBits)
LlrInputs == (0 - MaxLlrInt * LlrUnit) .. (MaxLlrInt * LlrUnit)

\* Saturation with the bounds of the plain 6-bit type, [-8, 7.75].
SaturateAsymmetric(x) ==
    IF x > SatQuarters * Pow2(SubBits) THEN SatQuarters * Pow2(SubBits)
    ELSE IF x < 0 - (SatQuarters + 1) * Pow2(SubBits)
           THEN 0 - (SatQuarters + 1) * Pow2(SubBits)
    ELSE x

\* if llr > 7.75: llr = 7.75 / elif llr < -7.75: llr = -7.75
Saturate(x) ==
    IF x > SatQuarters * Pow2(SubBits) THEN SatQuarters * Pow2(SubBits)
    ELSE IF x < 0 - SatQuarters * Pow2(SubBits) THEN 0 - SatQuarters * Pow2(SubBits)
    ELSE x

\* int() of the scaled value without np.round: truncation towards zero.
TruncQuarters(x) ==
    IF x >= 0 THEN x \div Pow2(SubBits) ELSE 0 - ((0 - x) \div Pow2(SubBits))

\* llr * pow(2,2), then int(np.round(llr)): the nearest integer, ties to even.
RoundQuarters(x) ==
    LET q == x \div Pow2(SubBits)      \* floor
        r == x % Pow2(SubBits)
        half == Pow2(SubBits) \div 2
    IN  IF r < half THEN q
        ELSE IF r > half THEN q + 1
        ELSE IF q % 2 = 0 THEN q ELSE q + 1

\* The binary digits of v >= 0, most significant first; <<>> for 0.
RECURSIVE Digits(_)
Digits(v) == IF v = 0 THEN <<>> ELSE Append(Digits(v \div 2), v % 2)

RECURSIVE Zeros(_)
Zeros(n) == IF n <= 0 THEN <<>> ELSE <<0>> \o Zeros(n - 1)

\* '{0:06b}'.format(v): at least WordBits digits, zero padded on the left.
Format06b(v) ==
    LET d == IF v = 0 THEN <<0>> ELSE Digits(v)
    IN  Zeros(WordBits - Len(d)) \o d

\* 2. Convert to binary (2's complement)
ToBinary(q) == IF q >= 0 THEN Format06b(q) ELSE Format06b(Pow2(WordBits) + q)

\* A sign extension that always pads with zeros.
SignExtendZero(binary) == <<0, 0>> \o binary

\* 3. Sign extend to 8-bits
SignExtend(binary) ==
    IF binary[1] = 0 THEN <<0, 0>> \o binary ELSE <<1, 1>> \o binary

\* int(binary_extended, 2)
RECURSIVE ParseBinary(_)
ParseBinary(s) ==
    IF s = <<>> THEN 0
    ELSE 2 * ParseBinary(SubSeq(s, 1, Len(s) - 1)) + s[Len(s)]

format_llr(x) ==
    LET llr == RoundQuarters(Saturate(x))
        binary == ToBinary(llr)
        binary_extended == SignExtend(binary)
    IN  [llr |-> llr, binary |-> binary, binary_extended |-> binary_extended,
         ret |-> ParseBinary(binary_extended)]

NoLocals == [llr |-> 0, binary |-> <<>>, binary_extended |-> <<>>, ret |-> 0]

LlrIdle == /\ llr_in = 0
           /\ llr_pc = "call"
           /\ llr_locals = NoLocals

LlrInit == /\ llr_in \in LlrInputs
           /\ llr_pc = "call"
           /\ llr_locals = NoLocals

FormatLlr ==
    /\ section = "format_llr"
    /\ llr_pc = "call"
    /\ llr_locals' = format_llr(llr_in)
    /\ llr_pc' = "returned"
    /\ UNCHANGED <<section, llr_in, clockVars, encVars, decVars, dmaVars, hwVars, bufVars, gdbVars>>

(***************************************************************************)
(* Control words.  Python integers are unbounded and nothing is truncated  *)
(* until a word is stored in a uint32 buffer.  A control word can exceed   *)
(* the integers TLC computes with, so the model writes a Python integer    *)
(* n >= 0 as its string of binary digits, least significant first and      *)
(* without leading zeros (<<>> is 0), and computes << and + on the digits. *)
(***************************************************************************)
\* The digits of a small n >= 0.
RECURSIVE Bits(_)
Bits(n) == IF n = 0 THEN <<>> ELSE <<n % 2>> \o Bits(n \div 2)

\* Without the zeros at the most significant end.
RECURSIVE Trim(_)
Trim(a) ==
    IF a = <<>> THEN <<>>
    ELSE IF a[Len(a)] = 0 THEN Trim(SubSeq(a, 1, Len(a) - 1))
    ELSE a

BitAt(a, i) == IF i + 1 <= Len(a) THEN a[i + 1] ELSE 0

\* a + b + carry, digit by digit
RECURSIVE AddCarry(_, _, _)
AddCarry(a, b, carry) ==
    IF a = <<>> /\ b = <<>> THEN (IF carry = 0 THEN <<>> ELSE <<carry>>)
    ELSE LET t == BitAt(a, 0) + BitAt(b, 0) + carry
         IN  <<t % 2>> \o AddCarry(Tail(IF a = <<>> THEN <<0>> ELSE a),
                                   Tail(IF b = <<>> THEN <<0>> ELSE b),
                                   t \div 2)

\* a + b
Add(a, b) == Trim(AddCarry(a, b, 0))
BlockIdMax == 255   \* External Block ID: uint8, 0 to 255
CodeIdMax == 127    \* Code ID: uint7, 0 to 127
MaxIterMax == 63    \* Max No. Iterations: uint6, 1 to 63

\* v << n
ShiftLeft(v, n) == Trim(Zeros(n) \o Bits(v))

\* The block ID shifted one place short.
EncoderCtrlWordShort(b, c) == Add(ShiftLeft(b, 23), ShiftLeft(c, 0))

\* ctrl_word = (block_id << 24) + (code_id << 0)
EncoderCtrlWord(b, c) == Add(ShiftLeft(b, 24), ShiftLeft(c, 0))

EncIdle == /\ block_id = 0
           /\ code_id = 0
           /\ ctrl_word = <<>>
           /\ enc_pc = "cell"

EncInit == /\ block_id \in 0 .. BlockIdMax
           /\ code_id \in 0 .. CodeIdMax
           /\ ctrl_word = <<>>
           /\ enc_pc = "cell"

EncCtrlWordCell ==
    /\ section = "enc_ctrl_word"
    /\ enc_pc = "cell"
    /\ ctrl_word' = EncoderCtrlWord(block_id, code_id)
    /\ enc_pc' = "done"
    /\ UNCHANGED <<section, block_id, code_id, clockVars, llrVars, decVars, dmaVars,
                   hwVars, bufVars, gdbVars>>

\* Table 1 with the iteration count one bit lower, over the bit of
\* Terminate on no Change.
DecCtrlFieldsOverlap ==
    << [name |-> "id",                hi |-> 31, lo |-> 24],
       [name |-> "max_iterations",    hi |-> 22, lo |-> 17],
       [name |-> "term_on_no_change", hi |-> 17, lo |-> 17],
       [name |-> "term_on_pass",      hi |-> 16, lo |-> 16],
       [name |-> "include_parity_op", hi |-> 15, lo |-> 15],
       [name |-> "hard_op",           hi |-> 14, lo |-> 14],
       [name |-> "code_id",           hi |-> 6,  lo |-> 0] >>

\* Table 1: Control interface for LDPC decoding in Non-5G NR mode, under
\* the names the ctrl_params dictionary gives the fields.
DecCtrlFields ==
    << [name |-> "id",                hi |-> 31, lo |-> 24],
       [name |-> "max_iterations",    hi |-> 23, lo |-> 18],
       [name |-> "term_on_no_change", hi |-> 17, lo |-> 17],
       [name |-> "term_on_pass",      hi |-> 16, lo |-> 16],
       [name |-> "include_parity_op", hi |-> 15, lo |-> 15],
       [name |-> "hard_op",           hi |-> 14, lo |-> 14],
       [name |-> "code_id",           hi |-> 6,  lo |-> 0] >>

\* The word assembled by shifting each field of the dictionary to the least
\* significant bit of its range and adding.
RECURSIVE ShiftAndAdd(_, _, _)
ShiftAndAdd(params, fields, i) ==
    IF i > Len(fields) THEN <<>>
    ELSE Add(ShiftLeft(params[fields[i].name], fields[i].lo),
             ShiftAndAdd(params, fields, i + 1))

create_ctrl_word(params) == ShiftAndAdd(params, DecCtrlFields, 1)

\* A store into a numpy uint32 buffer keeps the low 32 bits.
StoreUint32(v) == Trim(SubSeq(v, 1, IF Len(v) < 32 THEN Len(v) ELSE 32))

NoParams == [id |-> 0, max_iterations |-> 0, term_on_no_change |-> 0,
             term_on_pass |-> 0, include_parity_op |-> 0, hard_op |-> 0,
             code_id |-> 0]

\* Field values within the ranges Table 1 states: the ends of each range
\* and the values of the cell.
DecParamSets ==
    [id : {0, 1, BlockIdMax},
     max_iterations : {1, 32, MaxIterMax},
     term_on_no_change : {0, 1},
     term_on_pass : {0, 1},
     include_parity_op : {0, 1},
     hard_op : {0, 1},
     code_id : {0, 1, 4, CodeIdMax}]

DecIdle == /\ ctrl_params = NoParams
           /\ dec_ctrl_word = <<>>
           /\ ctrl_buffer = <<>>
           /\ dec_pc = "cell"

DecInit == /\ ctrl_params \in DecParamSets
           /\ dec_ctrl_word = <<>>
           /\ ctrl_buffer = <<>>
           /\ dec_pc = "cell"

\* ctrl_word = hf.create_ctrl_word(ctrl_params, readout='decoder');
\* ctrl_buffer = allocate(shape=(1,), dtype=np.uint32); ctrl_buffer[0] = ctrl_word
DecCtrlWordCell ==
    /\ section = "dec_ctrl_word"
    /\ dec_pc = "cell"
    /\ dec_ctrl_word' = create_ctrl_word(ctrl_params)
    /\ ctrl_buffer' = StoreUint32(create_ctrl_word(ctrl_params))
    /\ dec_pc' = "done"
    /\ UNCHANGED <<section, ctrl_params, clockVars, llrVars, encVars, dmaVars, hwVars, bufVars, gdbVars>>

(***************************************************************************)
(* DMA transfer cells.  A cell is a list of transfer() and wait() calls on *)
(* the send and receive channels of the control DMA (dma_ctrl) and of the  *)
(* data DMA (dma_data).  transfer() initiates a transfer and returns;      *)
(* wait() returns once the channel's transfer is complete.  The DMA        *)
(* engines and the SD-FEC core run beside the cell: the core takes the     *)
(* control word, then the data block (it cannot process DIN before the     *)
(* control word), and then puts the output block on DOUT and the status    *)
(* word on STATUS, where the receive channels collect them.                *)
(***************************************************************************)
Channels == {"ctrl.send", "data.send", "data.recv", "ctrl.recv"}

Stmt(op, ch) == [op |-> op, ch |-> ch]

\* The decode cell with the data block sent before the control word.
DecodeCellDataFirst ==
    << Stmt("transfer", "ctrl.recv"), Stmt("transfer", "data.recv"),
       Stmt("transfer", "data.send"), Stmt("transfer", "ctrl.send"),
       Stmt("wait", "ctrl.send"), Stmt("wait", "data.send"),
       Stmt("wait", "data.recv"), Stmt("wait", "ctrl.recv") >>

\* The decode cell waiting for the decoded block before anything is sent.
DecodeCellWaitEarly ==
    << Stmt("transfer", "ctrl.recv"), Stmt("transfer", "data.recv"),
       Stmt("wait", "data.recv"),
       Stmt("transfer", "ctrl.send"), Stmt("transfer", "data.send"),
       Stmt("wait", "ctrl.send"), Stmt("wait", "data.send"),
       Stmt("wait", "ctrl.recv") >>

\* dma_ctrl.recvchannel.transfer(status_buffer) ... dma_ctrl.recvchannel.wait()
DecodeCell ==
    << Stmt("transfer", "ctrl.recv"), Stmt("transfer", "data.recv"),
       Stmt("transfer", "ctrl.send"), Stmt("transfer", "data.send"),
       Stmt("wait", "ctrl.send"), Stmt("wait", "data.send"),
       Stmt("wait", "data.recv"), Stmt("wait", "ctrl.recv") >>

\* The encode cell with the sends initiated before the receives.
EncodeCellSendsFirst ==
    << Stmt("transfer", "ctrl.send"), Stmt("transfer", "data.send"),
       Stmt("transfer", "ctrl.recv"), Stmt("transfer", "data.recv"),
       Stmt("wait", "ctrl.send"), Stmt("wait", "data.send"),
       Stmt("wait", "data.recv"), Stmt("wait", "ctrl.recv") >>

EncodeCell ==
    << Stmt("transfer", "ctrl.recv"), Stmt("transfer", "data.recv"),
       Stmt("transfer", "ctrl.send"), Stmt("transfer", "data.send"),
       Stmt("wait", "ctrl.send"), Stmt("wait", "data.send"),
       Stmt("wait", "data.recv"), Stmt("wait", "ctrl.recv") >>

InTransferCell == section \in {"encode_transfer", "decode_transfer"}
Cell == IF section = "encode_transfer" THEN EncodeCell ELSE DecodeCell
CellFinished == InTransferCell /\ dma_pc > Len(Cell)

CoreReset == [ctrl_taken |-> FALSE, data_taken |-> FALSE,
              out_emitted |-> FALSE, status_emitted |-> FALSE,
              dout_fifo |-> 0, status_fifo |-> 0]

DmaInit == /\ dma_pc = 1
           /\ chan = [c \in Channels |-> "idle"]
           /\ started = <<>>
           /\ core = CoreReset
           /\ filled = {}

\* <channel>.transfer(buffer)
Transfer ==
    /\ InTransferCell
    /\ dma_pc <= Len(Cell)
    /\ Cell[dma_pc].op = "transfer"
    /\ chan[Cell[dma_pc].ch] = "idle"
    /\ chan' = [chan EXCEPT ![Cell[dma_pc].ch] = "running"]
    /\ started' = Append(started, Cell[dma_pc].ch)
    /\ dma_pc' = dma_pc + 1
    /\ UNCHANGED <<section, core, filled, clockVars, llrVars, encVars, decVars, hwVars, bufVars, gdbVars>>

\* <channel>.wait()
Wait ==
    /\ InTransferCell
    /\ dma_pc <= Len(Cell)
    /\ Cell[dma_pc].op = "wait"
    /\ chan[Cell[dma_pc].ch] = "done"
    /\ dma_pc' = dma_pc + 1
    /\ UNCHANGED <<section, chan, started, core, filled,
                   clockVars, llrVars, encVars, decVars, hwVars, bufVars, gdbVars>>

\* The control DMA delivers ctrl_buffer to the core's CTRL interface.
CoreTakesCtrl ==
    /\ InTransferCell
    /\ chan["ctrl.send"] = "running"
    /\ ~core.ctrl_taken
    /\ chan' = [chan EXCEPT !["ctrl.send"] = "done"]
    /\ core' = [core EXCEPT !.ctrl_taken = TRUE]
    /\ UNCHANGED <<section, dma_pc, started, filled,
                   clockVars, llrVars, encVars, decVars, hwVars, bufVars, gdbVars>>

\* The data DMA delivers the block to DIN, which the core reads only after
\* the control word.
CoreTakesData ==
    /\ InTransferCell
    /\ chan["data.send"] = "running"
    /\ core.ctrl_taken
    /\ ~core.data_taken
    /\ chan' = [chan EXCEPT !["data.send"] = "done"]
    /\ core' = [core EXCEPT !.data_taken = TRUE]
    /\ UNCHANGED <<section, dma_pc, started, filled,
                   clockVars, llrVars, encVars, decVars, hwVars, bufVars, gdbVars>>

\* The core puts the processed block on DOUT.
CoreEmitsData ==
    /\ InTransferCell
    /\ core.data_taken
    /\ ~core.out_emitted
    /\ core' = [core EXCEPT !.out_emitted = TRUE, !.dout_fifo = 1]
    /\ UNCHANGED <<section, dma_pc, chan, started, filled,
                   clockVars, llrVars, encVars, decVars, hwVars, bufVars, gdbVars>>

\* The core puts the status word of the block on STATUS.
CoreEmitsStatus ==
    /\ InTransferCell
    /\ core.data_taken
    /\ ~core.status_emitted
    /\ core' = [core EXCEPT !.status_emitted = TRUE, !.status_fifo = 1]
    /\ UNCHANGED <<section, dma_pc, chan, started, filled,
                   clockVars, llrVars, encVars, decVars, hwVars, bufVars, gdbVars>>

\* The data DMA writes the block from DOUT into the receive buffer.
DmaReceivesData ==
    /\ InTransferCell
    /\ chan["data.recv"] = "running"
    /\ core.dout_fifo = 1
    /\ chan' = [chan EXCEPT !["data.recv"] = "done"]
    /\ core' = [core EXCEPT !.dout_fifo = 0]
    /\ filled' = filled \cup {"rx_buf"}
    /\ UNCHANGED <<section, dma_pc, started, clockVars, llrVars, encVars, decVars,
                   hwVars, bufVars, gdbVars>>

\* The control DMA writes the status word into status_buffer.
DmaReceivesStatus ==
    /\ InTransferCell
    /\ chan["ctrl.recv"] = "running"
    /\ core.status_fifo = 1
    /\ chan' = [chan EXCEPT !["ctrl.recv"] = "done"]
    /\ core' = [core EXCEPT !.status_fifo = 0]
    /\ filled' = filled \cup {"status_buffer"}
    /\ UNCHANGED <<section, dma_pc, started, clockVars, llrVars, encVars, decVars,
                   hwVars, bufVars, gdbVars>>

(***************************************************************************)
(* Hardware accelerated BER measurement: the launch cell, the Interrupt    *)
(* class with its thread (_do) and coroutine (_wait), intr_handler and     *)
(* main().  The BER Calculation core raises ber_intr when a measurement    *)
(* over the configured length is complete; a measurement starts with       *)
(* ol.random_number_gen.start() and ol.ber.reset() clears the core.        *)
(* The vendor's Interrupt.wait() waits for the interrupt to be active      *)
(* ("Wait for IRQ level"): in mode "level" it returns while the core holds *)
(* the line, that is until ol.ber.reset(); in mode "pulse" the core        *)
(* raises the line for a moment, the interrupt controller latches it, and  *)
(* wait() returns once per latched interrupt.  Which of the two the        *)
(* bitstream implements is not visible in the notebook.                    *)
(***************************************************************************)
NumCodes == 2       \* len(codes)
NumSNRs == 2        \* len(SNRs)

coHist == <<outstanding, cb_due>>
notHw == <<section, clockVars, llrVars, encVars, decVars, dmaVars, bufVars, gdbVars>>

HwIdle == /\ launch_pc = "setup"
          /\ intr_flag = 0 - 1
          /\ is_running = FALSE
          /\ do_pc = "none"
          /\ co_pc = "none"
          /\ main_pc = "none"
          /\ codes_progress = 0
          /\ snr_progress = 0
          /\ BER = 0
          /\ BERs = 0
          /\ ber_state = "idle"
          /\ irq_mode = "level"
          /\ irq_pending = FALSE
          /\ handler_since_read = FALSE
          /\ stale_read = FALSE
          /\ outstanding = 0
          /\ cb_due = 0

HwInit == /\ launch_pc = "setup"
          /\ intr_flag = 0 - 1
          /\ is_running = FALSE
          /\ do_pc = "none"
          /\ co_pc = "none"
          /\ main_pc = "none"
          /\ codes_progress = 0
          /\ snr_progress = 0
          /\ BER = 0
          /\ BERs = 0
          /\ ber_state = "idle"
          /\ irq_mode \in {"level", "pulse"}
          /\ irq_pending = FALSE
          /\ handler_since_read = FALSE
          /\ stale_read = FALSE
          /\ outstanding = 0
          /\ cb_due = 0

IrqActive == IF irq_mode = "level" THEN ber_state = "done" ELSE irq_pending

\* ---- the launch cell
\* num_blocks, codes, SNRs, BERs = []; intr_flag = 0; intr = Interrupt(...)
LaunchSetup ==
    /\ section = "hw_ber"
    /\ launch_pc = "setup"
    /\ intr_flag' = 0
    /\ BERs' = 0
    /\ is_running' = FALSE
    /\ launch_pc' = "intr_start"
    /\ UNCHANGED <<do_pc, co_pc, main_pc, codes_progress, snr_progress, BER,
                   ber_state, irq_mode, irq_pending, handler_since_read,
                   stale_read, coHist, notHw>>

\* intr.start(): self.thread = threading.Thread(target=self._do); self.thread.start()
IntrStart ==
    /\ section = "hw_ber"
    /\ launch_pc = "intr_start"
    /\ do_pc' = "loop"
    /\ launch_pc' = "main_start"
    /\ UNCHANGED <<intr_flag, is_running, co_pc, main_pc, codes_progress,
                   snr_progress, BER, BERs, ber_state, irq_mode, irq_pending,
                   handler_since_read, stale_read, coHist, notHw>>

\* main_thread = threading.Thread(target=main); main_thread.start()
MainThreadStart ==
    /\ section = "hw_ber"
    /\ launch_pc = "main_start"
    /\ main_pc' = "init"
    /\ launch_pc' = "finished"
    /\ UNCHANGED <<intr_flag, is_running, do_pc, co_pc, codes_progress,
                   snr_progress, BER, BERs, ber_state, irq_mode, irq_pending,
                   handler_since_read, stale_read, coHist, notHw>>

\* ---- Interrupt._do
\* while True: self.is_running = True;
\*             future = asyncio.run_coroutine_threadsafe(self._wait(), self._loop)
DoSchedule ==
    /\ section = "hw_ber"
    /\ do_pc = "loop"
    /\ is_running' = TRUE
    /\ co_pc' = "scheduled"
    /\ do_pc' = "result"
    /\ outstanding' = outstanding + 1
    /\ UNCHANGED cb_due
    /\ UNCHANGED <<launch_pc, intr_flag, main_pc, codes_progress, snr_progress,
                   BER, BERs, ber_state, irq_mode, irq_pending,
                   handler_since_read, stale_read, notHw>>

\* A loop that ends after the first interrupt has been handled.
DoResultOnce ==
    /\ section = "hw_ber"
    /\ do_pc = "result"
    /\ co_pc = "finished"
    /\ co_pc' = "none"
    /\ is_running' = FALSE
    /\ do_pc' = "exited"
    /\ UNCHANGED <<launch_pc, intr_flag, main_pc, codes_progress, snr_progress,
                   BER, BERs, ber_state, irq_mode, irq_pending,
                   handler_since_read, stale_read, coHist, notHw>>

\* A loop that does not wait for the result of the coroutine.
DoResultNoWait ==
    /\ section = "hw_ber"
    /\ do_pc = "result"
    /\ do_pc' = "loop"
    /\ UNCHANGED <<launch_pc, intr_flag, is_running, co_pc, main_pc, codes_progress,
                   snr_progress, BER, BERs, ber_state, irq_mode, irq_pending,
                   handler_since_read, stale_read, coHist, notHw>>

\* future.result() returns when the coroutine has finished; the loop goes round.
DoResult ==
    /\ section = "hw_ber"
    /\ do_pc = "result"
    /\ co_pc = "finished"
    /\ co_pc' = "none"
    /\ do_pc' = "loop"
    /\ UNCHANGED <<launch_pc, intr_flag, is_running, main_pc, codes_progress,
                   snr_progress, BER, BERs, ber_state, irq_mode, irq_pending,
                   handler_since_read, stale_read, coHist, notHw>>

\* ---- Interrupt._wait, on the event loop
\* the event loop starts the coroutine: await self._interrupt.wait()
CoAwait ==
    /\ section = "hw_ber"
    /\ co_pc = "scheduled"
    /\ co_pc' = "awaiting"
    /\ UNCHANGED <<launch_pc, intr_flag, is_running, do_pc, main_pc,
                   codes_progress, snr_progress, BER, BERs, ber_state, irq_mode,
                   irq_pending, handler_since_read, stale_read, coHist, notHw>>

\* self._interrupt.wait() returns: the interrupt is active
CoWaitReturns ==
    /\ section = "hw_ber"
    /\ co_pc = "awaiting"
    /\ IrqActive
    /\ irq_pending' = FALSE
    /\ co_pc' = "callback"
    /\ cb_due' = cb_due + 1
    /\ UNCHANGED outstanding
    /\ UNCHANGED <<launch_pc, intr_flag, is_running, do_pc, main_pc,
                   codes_progress, snr_progress, BER, BERs, ber_state, irq_mode,
                   handler_since_read, stale_read, notHw>>

\* self._irq_callback(): intr_handler sets intr_flag = 1
IntrHandler ==
    /\ section = "hw_ber"
    /\ co_pc = "callback"
    /\ intr_flag' = 1
    /\ handler_since_read' = TRUE
    /\ co_pc' = "finished"
    /\ cb_due' = cb_due - 1
    /\ outstanding' = outstanding - 1
    /\ UNCHANGED <<launch_pc, is_running, do_pc, main_pc, codes_progress,
                   snr_progress, BER, BERs, ber_state, irq_mode, irq_pending,
                   stale_read, notHw>>

\* ---- the BER Calculation core
\* the measurement over ol.ber.length is complete: ber_intr is raised
BerComplete ==
    /\ section = "hw_ber"
    /\ ber_state = "measuring"
    /\ ber_state' = "done"
    /\ irq_pending' = (irq_mode = "pulse")
    /\ UNCHANGED <<launch_pc, intr_flag, is_running, do_pc, co_pc, main_pc,
                   codes_progress, snr_progress, BER, BERs, irq_mode,
                   handler_since_read, stale_read, coHist, notHw>>

\* ---- main()
\* progress bars, set_ldpc_code(codes[0]), initialise the IP cores, BER = [],
\* ol.random_number_gen.start()
MainInit ==
    /\ section = "hw_ber"
    /\ main_pc = "init"
    /\ codes_progress' = 0
    /\ snr_progress' = 0
    /\ BER' = 0
    /\ ber_state' = "measuring"
    /\ main_pc' = "poll"
    /\ UNCHANGED <<launch_pc, intr_flag, is_running, do_pc, co_pc, BERs,
                   irq_mode, irq_pending, handler_since_read, stale_read, coHist, notHw>>

\* while(1): if intr_flag == 1:
MainPoll ==
    /\ section = "hw_ber"
    /\ main_pc = "poll"
    /\ intr_flag = 1
    /\ main_pc' = "clear"
    /\ UNCHANGED <<launch_pc, intr_flag, is_running, do_pc, co_pc,
                   codes_progress, snr_progress, BER, BERs, ber_state, irq_mode,
                   irq_pending, handler_since_read, stale_read, coHist, notHw>>

\* intr_flag = 0
MainClear ==
    /\ section = "hw_ber"
    /\ main_pc = "clear"
    /\ intr_flag' = 0
    /\ main_pc' = "get_ber"
    /\ UNCHANGED <<launch_pc, is_running, do_pc, co_pc, codes_progress,
                   snr_progress, BER, BERs, ber_state, irq_mode, irq_pending,
                   handler_since_read, stale_read, coHist, notHw>>

\* ber = ol.ber.get_ber(); BER.append(ber)
MainGetBer ==
    /\ section = "hw_ber"
    /\ main_pc = "get_ber"
    /\ BER' = BER + 1
    /\ stale_read' = (stale_read \/ ~handler_since_read)
    /\ handler_since_read' = FALSE
    /\ main_pc' = "reset"
    /\ UNCHANGED <<launch_pc, intr_flag, is_running, do_pc, co_pc,
                   codes_progress, snr_progress, BERs, ber_state, irq_mode,
                   irq_pending, coHist, notHw>>

\* ol.ber.reset()
MainReset ==
    /\ section = "hw_ber"
    /\ main_pc = "reset"
    /\ ber_state' = "idle"
    /\ main_pc' = "progress"
    /\ UNCHANGED <<launch_pc, intr_flag, is_running, do_pc, co_pc,
                   codes_progress, snr_progress, BER, BERs, irq_mode,
                   irq_pending, handler_since_read, stale_read, coHist, notHw>>

\* snr_progress.value += 1; at len(SNRs): BERs.append(BER); BER = [] and
\* either break (the final code) or go on to the next code
MainProgress ==
    /\ section = "hw_ber"
    /\ main_pc = "progress"
    /\ IF snr_progress + 1 = NumSNRs
         THEN /\ BERs' = BERs + 1
              /\ BER' = 0
              /\ codes_progress' = codes_progress + 1
              /\ IF codes_progress = NumCodes - 1
                   THEN snr_progress' = snr_progress + 1 /\ main_pc' = "returned"
                   ELSE snr_progress' = 0 /\ main_pc' = "next"
         ELSE /\ snr_progress' = snr_progress + 1
              /\ main_pc' = "next"
              /\ UNCHANGED <<BER, BERs, codes_progress>>
    /\ UNCHANGED <<launch_pc, intr_flag, is_running, do_pc, co_pc, ber_state,
                   irq_mode, irq_pending, handler_since_read, stale_read, coHist, notHw>>

\* snr = SNRs[snr_progress.value]; set_snr; set_scaling; ol.ber.length = ...;
\* ol.random_number_gen.start()
MainNext ==
    /\ section = "hw_ber"
    /\ main_pc = "next"
    /\ ber_state' = "measuring"
    /\ main_pc' = "poll"
    /\ UNCHANGED <<launch_pc, intr_flag, is_running, do_pc, co_pc,
                   codes_progress, snr_progress, BER, BERs, irq_mode,
                   irq_pending, handler_since_read, stale_read, coHist, notHw>>

(***************************************************************************)
(* Data buffer cells.  n and k are the parameters of the selected code,    *)
(* read from the driver's dictionary fec._code_params.ldpc[code_name].     *)
(* The data streams are 8 bits wide, so a buffer is an array of uint8      *)
(* words; the model keeps of a buffer its shape and how many of its words  *)
(* the cell has written, and of a serialised bit the word and the position *)
(* in the word it comes from.                                              *)
(***************************************************************************)
MaxBlockLen == 18       \* code parameters range over 1 .. MaxBlockLen
DocsisMediumN == 5940   \* DOCSIS Medium: n / 8 = 742.5

\* The block lengths n and the information lengths k of the codes modelled.
BlockLens == (1 .. MaxBlockLen) \cup {DocsisMediumN}
InfoLens == 1 .. MaxBlockLen

\* int(x/8): the division without np.ceil.
FloorDiv8(x) == x \div 8

\* int(np.ceil(x/8)); x/8 is exact in binary floating point
CeilDiv8(x) == IF x % 8 = 0 THEN x \div 8 ELSE x \div 8 + 1

\* allocate(shape=(len,), dtype=np.uint8)
allocate(len) == [shape |-> len, dtype |-> "uint8", written |-> 0]
NoBuffer == [shape |-> 0, dtype |-> "none", written |-> 0]

\* for i in range(len(buf)): buf[i] = ...
Populate(buf) == [buf EXCEPT !.written = buf.shape]

\* hf.serialise(buf): the bits of the words of buf, word after word, each
\* word from its least significant bit.
serialise(buf) ==
    [i \in 1 .. 8 * buf.shape |-> [word |-> (i - 1) \div 8, bit |-> (i - 1) % 8]]

\* A slice that keeps one element too many.
SliceToInclusive(seq, m) == SubSeq(seq, 1, IF m + 1 < Len(seq) THEN m + 1 ELSE Len(seq))

\* seq[0:m]
SliceTo(seq, m) == SubSeq(seq, 1, IF m < Len(seq) THEN m ELSE Len(seq))

NoDecCell == [n |-> 0, k |-> 0, K |-> 0, tx_dec_buf |-> NoBuffer, rx_dec_buf |-> NoBuffer]
NoEncCell == [n |-> 0, k |-> 0, K |-> 0, N |-> 0, tx_enc_buf |-> NoBuffer,
              rx_enc_buf |-> NoBuffer, rx_bits |-> <<>>]

BufIdle == /\ dec_cell = NoDecCell
           /\ enc_cell = NoEncCell
           /\ buf_pc = "alloc"

DecBufInit == /\ \E bn \in BlockLens, bk \in InfoLens :
                    /\ bk <= bn
                    /\ dec_cell = [NoDecCell EXCEPT !.n = bn, !.k = bk]
              /\ enc_cell = NoEncCell
              /\ buf_pc = "alloc"

EncBufInit == /\ \E bn \in BlockLens, bk \in InfoLens :
                    /\ bk <= bn
                    /\ enc_cell = [NoEncCell EXCEPT !.n = bn, !.k = bk]
              /\ dec_cell = NoDecCell
              /\ buf_pc = "alloc"

\* K = int(np.ceil(k/8)); tx_dec_buf = allocate(shape=(n,), ...);
\* rx_dec_buf = allocate(shape=(K,), ...); the loop populating tx_dec_buf
DecAllocBuffers ==
    /\ section = "dec_buffers"
    /\ buf_pc = "alloc"
    /\ dec_cell' = [dec_cell EXCEPT
                      !.K = CeilDiv8(dec_cell.k),
                      !.tx_dec_buf = Populate(allocate(dec_cell.n)),
                      !.rx_dec_buf = allocate(CeilDiv8(dec_cell.k))]
    /\ buf_pc' = "done"
    /\ UNCHANGED <<section, enc_cell, clockVars, llrVars, encVars, decVars, dmaVars,
                   hwVars, gdbVars>>

\* K = int(np.ceil(k/8)); N = int(np.ceil(n/8)); tx_enc_buf = allocate(shape=(K,), ...);
\* rx_enc_buf = allocate(shape=(N,), ...); the loop populating tx_enc_buf
EncAllocBuffers ==
    /\ section = "enc_buffers"
    /\ buf_pc = "alloc"
    /\ enc_cell' = [enc_cell EXCEPT
                      !.K = CeilDiv8(enc_cell.k),
                      !.N = CeilDiv8(enc_cell.n),
                      !.tx_enc_buf = Populate(allocate(CeilDiv8(enc_cell.k))),
                      !.rx_enc_buf = allocate(CeilDiv8(enc_cell.n))]
    /\ buf_pc' = "serialise"
    /\ UNCHANGED <<section, dec_cell, clockVars, llrVars, encVars, decVars, dmaVars,
                   hwVars, gdbVars>>

\* rx_bits = hf.serialise(rx_enc_buf); n = ...['n']; rx_bits = rx_bits[0:n]
EncSerialiseTruncate ==
    /\ section = "enc_buffers"
    /\ buf_pc = "serialise"
    /\ enc_cell' = [enc_cell EXCEPT
                      !.rx_bits = SliceTo(serialise(enc_cell.rx_enc_buf), enc_cell.n)]
    /\ buf_pc' = "done"
    /\ UNCHANGED <<section, dec_cell, clockVars, llrVars, encVars, decVars, dmaVars,
                   hwVars, gdbVars>>

(***************************************************************************)
(* get_data_buffers.  The function works on the globals of the             *)
(* initialisation cell: the two SD-FEC cores enc_fec and dec_fec, the list *)
(* dec_ldpc_params of the code names of the decoder and the two control    *)
(* buffers.  The code parameters are data of the driver; the model takes   *)
(* for each code one of a few parameter sets.  A call that raises ends the *)
(* cell that made it, and the function can be called again.                *)
(***************************************************************************)
MaxCalls == 2       \* calls of get_data_buffers in one behaviour

notGdb == <<section, clockVars, llrVars, encVars, decVars, dmaVars, hwVars, bufVars>>

\* dec_ldpc_params = dec_fec.available_ldpc_params()
dec_ldpc_params == <<"docsis_short", "docsis_medium", "docsis_long">>

\* The arguments of the calls: the names of the list, 'uncoded', and names
\* that are neither (the encoder's name of a code, a misspelling).
CodeArgs == {"docsis_short", "docsis_medium", "docsis_long", "uncoded",
             "docsis_medium_encode", "Uncoded"}

InList(name, list) == \E i \in 1 .. Len(list) : list[i] = name

\* list.index(name), for a name of the list
IndexOf(name, list) == (CHOOSE i \in 1 .. Len(list) : list[i] = name) - 1

\* Parameter sets n, k of a code.
CodeParamSets == { [n |-> 1120, k |-> 840], [n |-> 5940, k |-> 5040] }
LdpcTables == [{dec_ldpc_params[i] : i \in 1 .. Len(dec_ldpc_params)} -> CodeParamSets]

\* Table 1: Control interface for LDPC encoding in Non-5G NR mode.
EncCtrlFields ==
    << [name |-> "id",      hi |-> 31, lo |-> 24],
       [name |-> "code_id", hi |-> 6,  lo |-> 0] >>

\* hf.create_ctrl_word of a dictionary with the encoder's fields
create_ctrl_word_encoder(params) == ShiftAndAdd(params, EncCtrlFields, 1)

NoLocalsGdb == [arg |-> "", code_name |-> "", code_id |-> 0]
NoDataBuffers == [enc_tx_buf |-> NoBuffer, enc_rx_buf |-> NoBuffer,
                  dec_tx_buf |-> NoBuffer, dec_rx_buf |-> NoBuffer, n |-> 0]

GdbIdle == /\ ldpc = [c \in {dec_ldpc_params[i] : i \in 1 .. Len(dec_ldpc_params)} |->
                          [n |-> 1120, k |-> 840]]
           /\ CORE_BYPASS = [enc_fec |-> 0, dec_fec |-> 0]
           /\ enc_ctrl_buffer = <<>>
           /\ dec_ctrl_buffer = <<>>
           /\ allocs = 0
           /\ gdb_pc = "idle"
           /\ gdb_locals = NoLocalsGdb
           /\ gdb_calls = <<>>

GdbInit == /\ ldpc \in LdpcTables
           /\ \E b \in {0, 1} : CORE_BYPASS = [enc_fec |-> b, dec_fec |-> b]
           /\ enc_ctrl_buffer = <<>>
           /\ dec_ctrl_buffer = <<>>
           /\ allocs = 0
           /\ gdb_pc = "idle"
           /\ gdb_locals = NoLocalsGdb
           /\ gdb_calls = <<>>

\* What a completed call leaves behind.
CallRecord(outcome, bufs, nallocs) ==
    [arg |-> gdb_locals.arg, outcome |-> outcome, CORE_BYPASS |-> CORE_BYPASS,
     enc_ctrl_buffer |-> enc_ctrl_buffer, dec_ctrl_buffer |-> dec_ctrl_buffer,
     data_buffers |-> bufs, allocs |-> nallocs]

\* get_data_buffers(code_name) is called
GdbCall ==
    /\ section = "get_data_buffers"
    /\ gdb_pc \in {"idle", "returned", "raised"}
    /\ Len(gdb_calls) < MaxCalls
    /\ \E name \in CodeArgs :
          gdb_locals' = [arg |-> name, code_name |-> name, code_id |-> 0]
    /\ gdb_pc' = "bypass"
    /\ UNCHANGED <<ldpc, CORE_BYPASS, enc_ctrl_buffer, dec_ctrl_buffer, allocs,
                   gdb_calls, notGdb>>

\* 'uncoded' renamed to the short code.
GdbBypassShort ==
    /\ section = "get_data_buffers"
    /\ gdb_pc = "bypass"
    /\ IF gdb_locals.code_name = "uncoded"
         THEN /\ CORE_BYPASS' = [enc_fec |-> 1, dec_fec |-> 1]
              /\ gdb_locals' = [gdb_locals EXCEPT !.code_name = "docsis_short"]
         ELSE /\ CORE_BYPASS' = [enc_fec |-> 0, dec_fec |-> 0]
              /\ UNCHANGED gdb_locals
    /\ gdb_pc' = "index"
    /\ UNCHANGED <<ldpc, enc_ctrl_buffer, dec_ctrl_buffer, allocs, gdb_calls,
                   notGdb>>

\* if code_name == 'uncoded': CORE_BYPASS = 1 on both cores,
\* code_name = 'docsis_medium'; else: CORE_BYPASS = 0 on both cores
GdbBypass ==
    /\ section = "get_data_buffers"
    /\ gdb_pc = "bypass"
    /\ IF gdb_locals.code_name = "uncoded"
         THEN /\ CORE_BYPASS' = [enc_fec |-> 1, dec_fec |-> 1]
              /\ gdb_locals' = [gdb_locals EXCEPT !.code_name = "docsis_medium"]
         ELSE /\ CORE_BYPASS' = [enc_fec |-> 0, dec_fec |-> 0]
              /\ UNCHANGED gdb_locals
    /\ gdb_pc' = "index"
    /\ UNCHANGED <<ldpc, enc_ctrl_buffer, dec_ctrl_buffer, allocs, gdb_calls,
                   notGdb>>

\* A lookup that falls back to the first code for a name it does not find.
GdbIndexDefault ==
    /\ section = "get_data_buffers"
    /\ gdb_pc = "index"
    /\ gdb_locals' = [gdb_locals EXCEPT !.code_id =
                        IF InList(gdb_locals.code_name, dec_ldpc_params)
                          THEN IndexOf(gdb_locals.code_name, dec_ldpc_params)
                          ELSE 0,
                        !.code_name =
                        IF InList(gdb_locals.code_name, dec_ldpc_params)
                          THEN gdb_locals.code_name
                          ELSE dec_ldpc_params[1]]
    /\ gdb_pc' = "enc_ctrl"
    /\ UNCHANGED <<ldpc, CORE_BYPASS, enc_ctrl_buffer, dec_ctrl_buffer, allocs,
                   gdb_calls, notGdb>>

\* code_id = dec_ldpc_params.index(code_name): ValueError for a name that is
\* not in the list
GdbIndex ==
    /\ section = "get_data_buffers"
    /\ gdb_pc = "index"
    /\ IF InList(gdb_locals.code_name, dec_ldpc_params)
         THEN /\ gdb_locals' = [gdb_locals EXCEPT !.code_id =
                                  IndexOf(gdb_locals.code_name, dec_ldpc_params)]
              /\ gdb_pc' = "enc_ctrl"
              /\ UNCHANGED gdb_calls
         ELSE /\ gdb_pc' = "raised"
              /\ gdb_calls' = Append(gdb_calls, CallRecord("raised", NoDataBuffers, allocs))
              /\ UNCHANGED gdb_locals
    /\ UNCHANGED <<ldpc, CORE_BYPASS, enc_ctrl_buffer, dec_ctrl_buffer, allocs,
                   notGdb>>

\* enc_ctrl_params = {'id' : 1, 'code_id' : code_id};
\* enc_ctrl_buffer[0] = hf.create_ctrl_word(enc_ctrl_params)
GdbEncCtrl ==
    /\ section = "get_data_buffers"
    /\ gdb_pc = "enc_ctrl"
    /\ enc_ctrl_buffer' = StoreUint32(create_ctrl_word_encoder(
                              [id |-> 1, code_id |-> gdb_locals.code_id]))
    /\ gdb_pc' = "dec_ctrl"
    /\ UNCHANGED <<ldpc, CORE_BYPASS, dec_ctrl_buffer, allocs, gdb_locals,
                   gdb_calls, notGdb>>

\* dec_ctrl_params = {'id' : 1, 'max_iterations' : 32, ...};
\* dec_ctrl_buffer[0] = hf.create_ctrl_word(dec_ctrl_params)
GdbDecCtrl ==
    /\ section = "get_data_buffers"
    /\ gdb_pc = "dec_ctrl"
    /\ dec_ctrl_buffer' = StoreUint32(create_ctrl_word(
                              [id |-> 1, max_iterations |-> 32,
                               term_on_no_change |-> 1, term_on_pass |-> 1,
                               include_parity_op |-> 0, hard_op |-> 1,
                               code_id |-> gdb_locals.code_id]))
    /\ gdb_pc' = "allocate"
    /\ UNCHANGED <<ldpc, CORE_BYPASS, enc_ctrl_buffer, allocs, gdb_locals,
                   gdb_calls, notGdb>>

\* n, k = dec_fec._code_params.ldpc[code_name][...]; K, N; the four
\* allocate calls; return data_buffers
GdbAllocate ==
    /\ section = "get_data_buffers"
    /\ gdb_pc = "allocate"
    /\ LET cn == ldpc[gdb_locals.code_name].n
           ck == ldpc[gdb_locals.code_name].k
           bufs == [enc_tx_buf |-> allocate(CeilDiv8(ck)),
                    enc_rx_buf |-> allocate(CeilDiv8(cn)),
                    dec_tx_buf |-> allocate(cn),
                    dec_rx_buf |-> allocate(CeilDiv8(ck)),
                    n |-> cn]
       IN  /\ allocs' = allocs + 4
           /\ gdb_calls' = Append(gdb_calls, CallRecord("returned", bufs, allocs + 4))
    /\ gdb_pc' = "returned"
    /\ UNCHANGED <<ldpc, CORE_BYPASS, enc_ctrl_buffer, dec_ctrl_buffer, gdb_locals,
                   notGdb>>

(***************************************************************************)
(* The specification.                                                      *)
(***************************************************************************)
Init ==
    /\ section \in Sections
    /\ IF section = "clock" THEN ClockInit ELSE ClockIdle
    /\ IF section = "format_llr" THEN LlrInit ELSE LlrIdle
    /\ IF section = "enc_ctrl_word" THEN EncInit ELSE EncIdle
    /\ IF section = "dec_ctrl_word" THEN DecInit ELSE DecIdle
    /\ DmaInit
    /\ IF section = "hw_ber" THEN HwInit ELSE HwIdle
    /\ IF section = "dec_buffers" THEN DecBufInit
         ELSE IF section = "enc_buffers" THEN EncBufInit
         ELSE BufIdle
    /\ IF section = "get_data_buffers" THEN GdbInit ELSE GdbIdle

Next ==
    \/ PlatformCheck
    \/ SetRefClks
    \/ FormatLlr
    \/ EncCtrlWordCell
    \/ DecCtrlWordCell
    \/ Transfer
    \/ Wait
    \/ CoreTakesCtrl
    \/ CoreTakesData
    \/ CoreEmitsData
    \/ CoreEmitsStatus
    \/ DmaReceivesData
    \/ DmaReceivesStatus
    \/ LaunchSetup
    \/ IntrStart
    \/ MainThreadStart
    \/ DoSchedule
    \/ DoResult
    \/ CoAwait
    \/ CoWaitReturns
    \/ IntrHandler
    \/ BerComplete
    \/ MainInit
    \/ MainPoll
    \/ MainClear
    \/ MainGetBer
    \/ MainReset
    \/ MainProgress
    \/ MainNext
    \/ DecAllocBuffers
    \/ EncAllocBuffers
    \/ EncSerialiseTruncate
    \/ GdbCall
    \/ GdbBypass
    \/ GdbIndex
    \/ GdbEncCtrl
    \/ GdbDecCtrl
    \/ GdbAllocate

Spec == Init /\ [][Next]_vars

\* The thread executing a transfer cell, the DMA engines and the SD-FEC core
\* keep running: a transfer cell does not stop while one of them can step.
TransferStep ==
    \/ Transfer
    \/ Wait
    \/ CoreTakesCtrl
    \/ CoreTakesData
    \/ CoreEmitsData
    \/ CoreEmitsStatus
    \/ DmaReceivesData
    \/ DmaReceivesStatus

FairSpec == Spec /\ WF_vars(TransferStep)

(***************************************************************************)
(* Properties.                                                             *)
(***************************************************************************)
Bit(v, i) == (v \div Pow2(i)) % 2
Signed8(b) == IF b >= 128 THEN b - 256 ELSE b
Abs(i) == IF i < 0 THEN 0 - i ELSE i

\* C1: on a board other than 'ZCU111', 'RFSoC2x2', 'RFSoC4x2' the clock cell
\* raises and never calls set_ref_clks; on each of the three it does not
\* raise and has called set_ref_clks exactly once when it is done.
C1_PlatformCheck ==
    section = "clock" =>
        /\ board \notin {"ZCU111", "RFSoC2x2", "RFSoC4x2"} =>
              /\ clk_pc \in {"check", "raised"}
              /\ ref_clks_calls = <<>>
        /\ board \in {"ZCU111", "RFSoC2x2", "RFSoC4x2"} =>
              /\ clk_pc # "raised"
              /\ Len(ref_clks_calls) = (IF clk_pc = "done" THEN 1 ELSE 0)

C1_Witness ==
    /\ section = "clock"
    /\ board = "ZCU208"
    /\ clk_pc = "raised"
    /\ ref_clks_calls = <<>>

\* C2: format_llr saturates symmetrically: the quantity it encodes is an
\* integer number of quarters in -31..31 for every input, also beyond
\* +-7.75; -32 is never encoded and the byte 0xE0 never returned.
C2_SymmetricSaturation ==
    (section = "format_llr" /\ llr_pc = "returned") =>
        /\ llr_locals.llr \in (0 - 31) .. 31
        /\ Signed8(llr_locals.ret) \in (0 - 31) .. 31
        /\ llr_locals.ret # 224

C2_Witness ==
    /\ section = "format_llr"
    /\ llr_pc = "returned"
    /\ llr_in < 0 - 8 * LlrUnit
    /\ llr_locals.llr = 0 - 31
    /\ llr_locals.ret = 225

\* C3: format_llr returns a byte, 0..255, whose bits 7 and 6 both equal
\* bit 5, the sign bit of the 6-bit word in its low bits.
C3_SignExtended ==
    (section = "format_llr" /\ llr_pc = "returned") =>
        /\ llr_locals.ret \in 0 .. 255
        /\ Bit(llr_locals.ret, 7) = Bit(llr_locals.ret, 5)
        /\ Bit(llr_locals.ret, 6) = Bit(llr_locals.ret, 5)
        /\ Len(llr_locals.binary) = 6
        /\ llr_locals.ret % 64 = ParseBinary(llr_locals.binary)

C3_Witness ==
    /\ section = "format_llr"
    /\ llr_pc = "returned"
    /\ llr_in = 0 - LlrUnit
    /\ llr_locals.binary = <<1, 1, 1, 1, 0, 0>>
    /\ llr_locals.ret = 252

\* An LLR, in units of 1/LlrUnit, clamped to [-7.75, 7.75].
C4_Clamp(x) ==
    IF 4 * x > 31 * LlrUnit THEN 31 * (LlrUnit \div 4)
    ELSE IF 4 * x < 0 - 31 * LlrUnit THEN 0 - 31 * (LlrUnit \div 4)
    ELSE x

RECURSIVE Field(_, _, _)
Field(word, hi, lo) ==
    IF hi < lo THEN 0 ELSE BitAt(word, lo) + 2 * Field(word, hi, lo + 1)

\* The word is below 2^32: it has no digit beyond bit 31.
Below2Pow32(word) == Len(word) <= 32 /\ \A i \in 1 .. Len(word) : word[i] \in {0, 1}

\* C5: the encoder control word (block_id << 24) + (code_id << 0) is
\* below 2^32 for block_id in 0..255 and code_id in 0..127, carries
\* block_id in bits 31:24 and code_id in bits 6:0, and has bits 23:7 zero.
C5_EncoderWordLayout ==
    (section = "enc_ctrl_word" /\ enc_pc = "done"
        /\ block_id \in 0 .. 255 /\ code_id \in 0 .. 127) =>
        /\ Below2Pow32(ctrl_word)
        /\ Field(ctrl_word, 31, 24) = block_id
        /\ Field(ctrl_word, 6, 0) = code_id
        /\ Field(ctrl_word, 23, 7) = 0

C5_Witness ==
    /\ section = "enc_ctrl_word"
    /\ block_id = 255
    /\ code_id = 127
    /\ enc_pc = "done"
    /\ Len(ctrl_word) = 32
    /\ Field(ctrl_word, 31, 24) = 255
    /\ Field(ctrl_word, 6, 0) = 127

\* C6: the fields of the decoder's Table 1 lie in pairwise disjoint bit
\* ranges of a 32-bit word: the word assembled by shift-and-add from values
\* within the stated ranges is below 2^32 (the uint32 buffer holds it
\* unchanged), each field is recovered by shifting and masking, and the
\* reserved bits 13:7 are zero.
C6_DecoderWordLayout ==
    /\ \A i, j \in 1 .. Len(DecCtrlFields) :
          /\ 0 <= DecCtrlFields[i].lo
          /\ DecCtrlFields[i].lo <= DecCtrlFields[i].hi
          /\ DecCtrlFields[i].hi <= 31
          /\ i < j => DecCtrlFields[i].lo > DecCtrlFields[j].hi
    /\ (section = "dec_ctrl_word" /\ dec_pc = "done") =>
          /\ Below2Pow32(dec_ctrl_word)
          /\ ctrl_buffer = dec_ctrl_word
          /\ Field(dec_ctrl_word, 31, 24) = ctrl_params.id
          /\ Field(dec_ctrl_word, 23, 18) = ctrl_params.max_iterations
          /\ Field(dec_ctrl_word, 17, 17) = ctrl_params.term_on_no_change
          /\ Field(dec_ctrl_word, 16, 16) = ctrl_params.term_on_pass
          /\ Field(dec_ctrl_word, 15, 15) = ctrl_params.include_parity_op
          /\ Field(dec_ctrl_word, 14, 14) = ctrl_params.hard_op
          /\ Field(dec_ctrl_word, 6, 0) = ctrl_params.code_id
          /\ Field(dec_ctrl_word, 13, 7) = 0

C6_Witness ==
    /\ section = "dec_ctrl_word"
    /\ ctrl_params = [id |-> 255, max_iterations |-> 63, term_on_no_change |-> 1,
                      term_on_pass |-> 1, include_parity_op |-> 1, hard_op |-> 1,
                      code_id |-> 127]
    /\ dec_pc = "done"
    /\ Len(dec_ctrl_word) = 32
    /\ Field(dec_ctrl_word, 23, 18) = 63
    /\ ctrl_buffer = dec_ctrl_word

\* The position of a channel in the order of initiation; 0 = not initiated.
StartedAt(ch) ==
    IF \E i \in 1 .. Len(started) : started[i] = ch
      THEN CHOOSE i \in 1 .. Len(started) : started[i] = ch
      ELSE 0

\* C7: in the encode and in the decode transfer cell the send of the
\* control buffer on the ctrl DMA is initiated before the send of the data
\* buffer on the data DMA.
C7_CtrlBeforeData ==
    InTransferCell =>
        /\ StartedAt("data.send") > 0 =>
              /\ StartedAt("ctrl.send") > 0
              /\ StartedAt("ctrl.send") < StartedAt("data.send")
        /\ CellFinished => StartedAt("data.send") > 0

C7_Witness ==
    /\ section = "encode_transfer"
    /\ started = <<"ctrl.recv", "data.recv", "ctrl.send", "data.send">>
    /\ CellFinished

\* C8: in both transfer cells the status receive and the data receive are
\* initiated before either send, so a receive transfer is armed whenever
\* the core emits the status word or the output block, and when the cell
\* ends the status word of the block sent has been read: nothing is left
\* in the STATUS FIFO.
C8_ReceivesArmedFirst ==
    InTransferCell =>
        /\ \A snd \in {"ctrl.send", "data.send"} :
              StartedAt(snd) > 0 =>
                 \A rcv \in {"ctrl.recv", "data.recv"} :
                    StartedAt(rcv) > 0 /\ StartedAt(rcv) < StartedAt(snd)
        /\ core.status_emitted => chan["ctrl.recv"] # "idle"
        /\ core.out_emitted => chan["data.recv"] # "idle"
        /\ CellFinished =>
              /\ core.data_taken
              /\ core.status_emitted
              /\ core.status_fifo = 0
              /\ "status_buffer" \in filled

C8_Witness ==
    /\ section = "decode_transfer"
    /\ CellFinished
    /\ core.data_taken
    /\ core.status_fifo = 0
    /\ filled = {"rx_buf", "status_buffer"}

\* C9: the interrupt-wait wrapper has no cancellation: once
\* Interrupt.start() has been called the _do loop has not exited in any
\* reachable state, and is_running is never taken back; in particular the
\* thread is still in the loop after main() has returned.
C9_NoCancellation ==
    (section = "hw_ber" /\ do_pc # "none") =>
        /\ do_pc \in {"loop", "result"}
        /\ do_pc = "result" => is_running
        /\ main_pc = "returned" => do_pc \in {"loop", "result"}

C9_Witness ==
    /\ section = "hw_ber"
    /\ main_pc = "returned"
    /\ BERs = NumCodes
    /\ do_pc = "result"
    /\ co_pc = "awaiting"

\* C10: the handler only sets intr_flag to 1, only main() resets it, and
\* main() reads a measurement (ol.ber.get_ber) only after it has observed
\* intr_flag == 1 and cleared it, so that no measurement is read without
\* an execution of the handler since the previous read.
C10_NoReadWithoutHandler ==
    section = "hw_ber" =>
        /\ intr_flag \in {0 - 1, 0, 1}
        /\ main_pc = "get_ber" => intr_flag \in {0, 1}
        /\ ~stale_read

\* C11: the measurement run happens within the execution of the launch
\* cell: when the cell that starts the interrupt thread and main_thread has
\* finished, BERs holds one list of measurements per code, so the following
\* plot cell sees every measurement.
C11_ResultsCompleteAtCellEnd ==
    (section = "hw_ber" /\ launch_pc = "finished") =>
        /\ main_pc = "returned"
        /\ BERs = NumCodes

\* C12: for each supported board the LMK frequency passed to set_ref_clks
\* is the board's default of Table 1 (ZCU111 122.88, RFSoC2x2 122.88,
\* RFSoC4x2 245.76) and the LMX frequency passed is 409.6 whatever the board.
C12_RefClkFrequencies ==
    (section = "clock" /\ board \in {"ZCU111", "RFSoC2x2", "RFSoC4x2"}) =>
        /\ clk_pc = "done" => Len(ref_clks_calls) = 1
        /\ \A i \in 1 .. Len(ref_clks_calls) :
              /\ ref_clks_calls[i][1] = Table1LmkDefault(board)
              /\ ref_clks_calls[i][2] = LmxRequired
        /\ board = "ZCU111" => lmk_freq \in {0, 12288}
        /\ board = "RFSoC2x2" => lmk_freq \in {0, 12288}
        /\ board = "RFSoC4x2" => lmk_freq \in {0, 24576}

C12_Witness ==
    /\ section = "clock"
    /\ board = "RFSoC4x2"
    /\ clk_pc = "done"
    /\ ref_clks_calls = << <<24576, 40960>> >>

\* C13: for every code (n, k) the decoder's transmit buffer has exactly n
\* one-byte entries and its receive buffer has K = ceil(k/8) bytes: k/8 when
\* 8 divides k, and otherwise the smallest byte count with 8K >= k.
C13_DecoderBufferSizes ==
    (section = "dec_buffers" /\ buf_pc = "done") =>
        /\ dec_cell.tx_dec_buf.shape = dec_cell.n
        /\ dec_cell.tx_dec_buf.dtype = "uint8"
        /\ dec_cell.tx_dec_buf.written = dec_cell.n
        /\ dec_cell.rx_dec_buf.shape = dec_cell.K
        /\ dec_cell.rx_dec_buf.dtype = "uint8"
        /\ 8 * dec_cell.K >= dec_cell.k
        /\ 8 * (dec_cell.K - 1) < dec_cell.k
        /\ dec_cell.k % 8 = 0 => 8 * dec_cell.K = dec_cell.k

C13_Witness ==
    /\ section = "dec_buffers"
    /\ buf_pc = "done"
    /\ dec_cell.n = 18
    /\ dec_cell.k = 13
    /\ dec_cell.tx_dec_buf.shape = 18
    /\ dec_cell.rx_dec_buf.shape = 2

\* C14: for every code (n, k) the encoder's receive buffer has
\* N = ceil(n/8) bytes, and truncating its serialised bits to rx_bits[0:n]
\* leaves exactly n bits and discards 8N - n bits, between 0 and 7 and all
\* of the last byte; for DOCSIS Medium the buffer has 743 bytes, 742 words
\* are fully valid and 4 bits are discarded.
C14_EncoderReceiveTruncation ==
    (section = "enc_buffers" /\ buf_pc = "done") =>
        LET bytes == enc_cell.rx_enc_buf.shape
            all == serialise(enc_cell.rx_enc_buf)
            kept == Len(enc_cell.rx_bits)
            whole == Cardinality({w \in 0 .. bytes - 1 : 8 * (w + 1) <= kept})
        IN  /\ bytes = enc_cell.N
            /\ 8 * bytes >= enc_cell.n
            /\ 8 * (bytes - 1) < enc_cell.n
            /\ kept = enc_cell.n
            /\ Len(all) = 8 * bytes
            /\ Len(all) - kept \in 0 .. 7
            /\ \A i \in 1 .. kept : enc_cell.rx_bits[i] = all[i]
            /\ \A i \in kept + 1 .. Len(all) : all[i].word = bytes - 1
            /\ enc_cell.n = 5940 =>
                  /\ bytes = 743
                  /\ whole = 742
                  /\ Len(all) - kept = 4

C14_Witness ==
    /\ section = "enc_buffers"
    /\ buf_pc = "done"
    /\ enc_cell.n = 5940
    /\ enc_cell.rx_enc_buf.shape = 743
    /\ Len(enc_cell.rx_bits) = 5940

\* C15: get_data_buffers('uncoded') configures everything as
\* get_data_buffers('docsis_medium') does except for bypass: the two calls
\* write the same encoder and decoder control words and return buffers of
\* the same four sizes and the same n, and CORE_BYPASS is 1 on both cores
\* after the first and 0 on both cores after the second.
C15_UncodedAsDocsisMedium ==
    section = "get_data_buffers" =>
        \A i, j \in 1 .. Len(gdb_calls) :
            (gdb_calls[i].arg = "uncoded" /\ gdb_calls[j].arg = "docsis_medium") =>
                /\ gdb_calls[i].outcome = "returned"
                /\ gdb_calls[j].outcome = "returned"
                /\ gdb_calls[i].enc_ctrl_buffer = gdb_calls[j].enc_ctrl_buffer
                /\ gdb_calls[i].dec_ctrl_buffer = gdb_calls[j].dec_ctrl_buffer
                /\ gdb_calls[i].data_buffers = gdb_calls[j].data_buffers
                /\ gdb_calls[i].CORE_BYPASS = [enc_fec |-> 1, dec_fec |-> 1]
                /\ gdb_calls[j].CORE_BYPASS = [enc_fec |-> 0, dec_fec |-> 0]

C15_Witness ==
    /\ section = "get_data_buffers"
    /\ Len(gdb_calls) = 2
    /\ gdb_calls[1].arg = "uncoded"
    /\ gdb_calls[2].arg = "docsis_medium"
    /\ gdb_calls[1].outcome = "returned"
    /\ gdb_calls[2].outcome = "returned"
    /\ ldpc["docsis_short"] # ldpc["docsis_medium"]
    /\ gdb_calls[1].data_buffers.n = 5940
    /\ Field(gdb_calls[1].enc_ctrl_buffer, 6, 0) = 1
    /\ CORE_BYPASS = [enc_fec |-> 0, dec_fec |-> 0]

\* The state the control buffers and the allocation count were in before
\* the i-th call.
C18_Before(i) ==
    IF i = 1 THEN [enc_ctrl_buffer |-> <<>>, dec_ctrl_buffer |-> <<>>, allocs |-> 0]
    ELSE [enc_ctrl_buffer |-> gdb_calls[i - 1].enc_ctrl_buffer,
          dec_ctrl_buffer |-> gdb_calls[i - 1].dec_ctrl_buffer,
          allocs |-> gdb_calls[i - 1].allocs]

\* C18: a call of get_data_buffers with a code_name that is neither
\* 'uncoded' nor in dec_ldpc_params raises before it writes enc_ctrl_buffer
\* or dec_ctrl_buffer and before it allocates a data buffer: both control
\* buffers keep the words of the previous successful call, and the only
\* state changed is CORE_BYPASS, 0 on both cores.
C18_UnknownCodeRaisesEarly ==
    section = "get_data_buffers" =>
        /\ \A i \in 1 .. Len(gdb_calls) :
              (gdb_calls[i].arg # "uncoded"
                  /\ ~InList(gdb_calls[i].arg, dec_ldpc_params)) =>
                 /\ gdb_calls[i].outcome = "raised"
                 /\ gdb_calls[i].enc_ctrl_buffer = C18_Before(i).enc_ctrl_buffer
                 /\ gdb_calls[i].dec_ctrl_buffer = C18_Before(i).dec_ctrl_buffer
                 /\ gdb_calls[i].allocs = C18_Before(i).allocs
                 /\ gdb_calls[i].data_buffers = NoDataBuffers
                 /\ gdb_calls[i].CORE_BYPASS = [enc_fec |-> 0, dec_fec |-> 0]
                 /\ \A j \in 1 .. i - 1 :
                       (\A m \in j .. i - 1 :
                            gdb_calls[m].outcome = "returned" <=> m = j) =>
                          /\ gdb_calls[i].enc_ctrl_buffer = gdb_calls[j].enc_ctrl_buffer
                          /\ gdb_calls[i].dec_ctrl_buffer = gdb_calls[j].dec_ctrl_buffer
        /\ gdb_pc = "raised" =>
              /\ enc_ctrl_buffer = gdb_calls[Len(gdb_calls)].enc_ctrl_buffer
              /\ dec_ctrl_buffer = gdb_calls[Len(gdb_calls)].dec_ctrl_buffer
              /\ allocs = gdb_calls[Len(gdb_calls)].allocs
              /\ CORE_BYPASS = [enc_fec |-> 0, dec_fec |-> 0]

C18_Witness ==
    /\ section = "get_data_buffers"
    /\ gdb_pc = "raised"
    /\ Len(gdb_calls) = 2
    /\ gdb_calls[1].arg = "uncoded"
    /\ gdb_calls[1].outcome = "returned"
    /\ gdb_calls[1].CORE_BYPASS = [enc_fec |-> 1, dec_fec |-> 1]
    /\ gdb_calls[2].arg = "docsis_medium_encode"
    /\ gdb_calls[2].outcome = "raised"
    /\ Field(enc_ctrl_buffer, 31, 24) = 1
    /\ Field(dec_ctrl_buffer, 23, 18) = 32
    /\ allocs = 4
    /\ CORE_BYPASS = [enc_fec |-> 0, dec_fec |-> 0]

\* C16: for one Interrupt object at most one _wait coroutine is outstanding
\* at any time, and the callback is invoked exactly once per return of the
\* interrupt's wait(), before the next wait is scheduled: the _do loop is
\* back at its head only when the callback of the last wait has returned.
C16_OneWaitOutstanding ==
    section = "hw_ber" =>
        /\ outstanding \in {0, 1}
        /\ cb_due \in {0, 1}
        /\ cb_due = 1 <=> co_pc = "callback"
        /\ outstanding = 1 <=> co_pc \in {"scheduled", "awaiting", "callback"}
        /\ do_pc = "loop" => (outstanding = 0 /\ cb_due = 0)
        /\ outstanding = 1 => do_pc = "result"

C16_Witness ==
    /\ section = "hw_ber"
    /\ BER = 1
    /\ do_pc = "result"
    /\ co_pc = "callback"
    /\ outstanding = 1
    /\ cb_due = 1

\* The statements of the cell that have been executed.
Executed(op, ch) == \E i \in 1 .. Len(Cell) : i < dma_pc /\ Cell[i] = Stmt(op, ch)

\* C17: in each DMA transfer cell all four transfers are started before
\* any wait is issued, the waits are issued in the order ctrl send, data
\* send, data receive, ctrl receive, and with a core that consumes the
\* control word, then the data block, and then emits the output block and
\* the status word every wait returns: the cell runs to its end, where
\* every started transfer is complete and has been waited on.
C17_CellTerminates ==
    /\ [](InTransferCell =>
            /\ \A c \in Channels :
                  /\ Executed("wait", c) => Len(started) = 4
                  /\ (dma_pc <= Len(Cell) /\ Cell[dma_pc] = Stmt("wait", c))
                        => Len(started) = 4
            /\ Executed("wait", "data.send") => Executed("wait", "ctrl.send")
            /\ Executed("wait", "data.recv") => Executed("wait", "data.send")
            /\ Executed("wait", "ctrl.recv") => Executed("wait", "data.recv")
            /\ CellFinished =>
                  /\ Len(started) = 4
                  /\ \A c \in Channels :
                        /\ chan[c] = "done"
                        /\ Executed("transfer", c)
                        /\ Executed("wait", c))
    /\ (InTransferCell ~> CellFinished)

C17_Witness ==
    /\ section = "encode_transfer"
    /\ CellFinished
    /\ Len(started) = 4
    /\ \A c \in Channels : chan[c] = "done"
    /\ core.dout_fifo = 0
    /\ core.status_fifo = 0

====
